---- MODULE Spec2Model ----
(***************************************************************************)
(* Model of analyzer/clang.py: get_arguments (Clang invocation capture),   *)
(* _get_active_checkers (default checkers over four languages) and         *)
(* get_checkers (checker catalogue from -analyzer-checker-help).           *)
(*                                                                         *)
(* Text is modelled character by character: a string is a sequence of      *)
(* one-character strings, a stream is a sequence of lines, and a line      *)
(* keeps its terminating "\n" when it has one.                             *)
(***************************************************************************)
EXTENDS Integers, Sequences, FiniteSets, TLC

VARIABLES
    pc,         \* where get_checkers is: "probe", "help", "done" or "failed"
    plugins,    \* the plugins argument of get_checkers
    children,   \* the child processes spawned so far, in spawn order
    events,     \* spawn / close / wait events on the children, in order
    args,       \* the token lists get_arguments returned, one per language
    actives,    \* the set bound to `actives` once _get_active_checkers returns
    emitted,    \* the pairs parse_checkers yielded
    returned,   \* the dictionary get_checkers returned
    error       \* the exception that left get_checkers

vars == <<pc, plugins, children, events, args, actives, emitted, returned, error>>

(***************************************************************************)
(* Bounds of the model.                                                    *)
(***************************************************************************)
\* longest enumerated last line of a -### child (characters before "\n")
MaxLineLen == 5
\* most lines after the first position of an enumerated help text
MaxBody == 4

(***************************************************************************)
(* Characters and string helpers (Python str / re primitives).             *)
(***************************************************************************)
DQ == "\""
SQ == "'"
BS == "\\"
NL == "\n"

\* the characters \s matches and str.strip removes, among the modelled ones
Whitespace == {" ", "\t", "\n"}

IsSpace(c) == c \in Whitespace

RECURSIVE LStrip(_)
LStrip(s) ==
    IF s # <<>> /\ IsSpace(Head(s)) THEN LStrip(Tail(s)) ELSE s

RECURSIVE RStrip(_)
RStrip(s) ==
    IF s # <<>> /\ IsSpace(s[Len(s)]) THEN RStrip(SubSeq(s, 1, Len(s) - 1)) ELSE s

Strip(s) == LStrip(RStrip(s))

\* re.match(r'^<literal>', s)
StartsWith(prefix, s) ==
    /\ Len(s) >= Len(prefix)
    /\ SubSeq(s, 1, Len(prefix)) = prefix

\* the longest run of non-whitespace characters at the start of s (\S*)
RECURSIVE NonSpaceRun(_)
NonSpaceRun(s) ==
    IF s # <<>> /\ ~IsSpace(Head(s))
    THEN <<Head(s)>> \o NonSpaceRun(Tail(s))
    ELSE <<>>

Drop(s, n) == SubSeq(s, n + 1, Len(s))

NoError == [type |-> "none", text |-> <<>>]
Raise(type, text) == [type |-> type, text |-> text]

(***************************************************************************)
(* get_arguments                                                           *)
(***************************************************************************)
OutputNotFound ==
    <<"o","u","t","p","u","t"," ","n","o","t"," ","f","o","u","n","d">>
NoClosingQuotation ==
    <<"N","o"," ","c","l","o","s","i","n","g"," ",
      "q","u","o","t","a","t","i","o","n">>
NoEscapedCharacter ==
    <<"N","o"," ","e","s","c","a","p","e","d"," ",
      "c","h","a","r","a","c","t","e","r">>
ClangErrorMarker ==
    <<"c","l","a","n","g",":"," ","e","r","r","o","r",":">>

\* lastline(stream): the last line, or the 'output not found' exception
lastline(stream) ==
    IF stream = <<>>
    THEN [error |-> Raise("Exception", OutputNotFound), last |-> <<>>]
    ELSE [error |-> NoError, last |-> stream[Len(stream)]]

\* a variant that accepts double quotes inside the wrapping quotes
strip_quotes_greedy(quoted) ==
    IF Len(quoted) >= 2 /\ quoted[1] = DQ /\ quoted[Len(quoted)] = DQ
    THEN SubSeq(quoted, 2, Len(quoted) - 1)
    ELSE quoted

\* strip_quotes(quoted): re.match(r'^\"([^\"]*)\"$', quoted); '$' also
\* matches just before a newline that ends the string
strip_quotes(quoted) ==
    LET body == IF quoted # <<>> /\ quoted[Len(quoted)] = NL
                THEN SubSeq(quoted, 1, Len(quoted) - 1)
                ELSE quoted
        Wrapped(t) ==
            /\ Len(t) >= 2
            /\ t[1] = DQ
            /\ t[Len(t)] = DQ
            /\ \A i \in 2..(Len(t) - 1) : t[i] # DQ
    IN  IF Wrapped(quoted) THEN SubSeq(quoted, 2, Len(quoted) - 1)
        ELSE IF Wrapped(body) THEN SubSeq(body, 2, Len(body) - 1)
        ELSE quoted

\* shlex.split(line): shlex in POSIX mode with whitespace_split and no
\* commenters.  The lexer state L holds st (the state: " ", "a", a quote or
\* the escape character), esc (escapedstate), tok (the token being read),
\* quoted (whether the token saw a quote) and out (the tokens read so far).
ShlexQuotes == {DQ, SQ}
ShlexEscape == {BS}
ShlexEscapedQuotes == {DQ}

\* one character c read by the lexer in state L
ShlexStep(L, c) ==
    LET Emit == IF L.tok # <<>> \/ L.quoted THEN Append(L.out, L.tok) ELSE L.out
        EndToken == [st |-> " ", esc |-> " ", tok |-> <<>>, quoted |-> FALSE,
                     out |-> Emit]
    IN  CASE L.st = " " ->
                 IF IsSpace(c) THEN EndToken
                 ELSE IF c \in ShlexEscape THEN [L EXCEPT !.st = c, !.esc = "a"]
                 ELSE IF c \in ShlexQuotes THEN [L EXCEPT !.st = c]
                 ELSE [L EXCEPT !.st = "a", !.tok = <<c>>]
          [] L.st \in ShlexQuotes ->
                 IF c = L.st THEN [L EXCEPT !.st = "a", !.quoted = TRUE]
                 ELSE IF c \in ShlexEscape /\ L.st \in ShlexEscapedQuotes
                 THEN [L EXCEPT !.st = c, !.esc = L.st, !.quoted = TRUE]
                 ELSE [L EXCEPT !.tok = Append(L.tok, c), !.quoted = TRUE]
          [] L.st \in ShlexEscape ->
                 IF L.esc \in ShlexQuotes /\ c # L.st /\ c # L.esc
                 THEN [L EXCEPT !.st = L.esc, !.tok = L.tok \o <<L.st, c>>]
                 ELSE [L EXCEPT !.st = L.esc, !.tok = Append(L.tok, c)]
          [] OTHER -> \* L.st = "a"
                 IF IsSpace(c) THEN EndToken
                 ELSE IF c \in ShlexQuotes THEN [L EXCEPT !.st = c]
                 ELSE IF c \in ShlexEscape THEN [L EXCEPT !.st = c, !.esc = "a"]
                 ELSE [L EXCEPT !.tok = Append(L.tok, c)]

ShlexStart ==
    [st |-> " ", esc |-> " ", tok |-> <<>>, quoted |-> FALSE, out |-> <<>>]

ShlexStates == {" ", "a"} \cup ShlexQuotes \cup ShlexEscape

\* the lexer state after reading characters lo..hi of s from state L; the
\* range is halved, and the state after the left half is computed before
\* the right half is entered, so that evaluating a long line does not nest
\* one level per character
RECURSIVE ShlexRun(_, _, _, _)
ShlexRun(s, lo, hi, L) ==
    IF lo > hi THEN L
    ELSE IF lo = hi THEN ShlexStep(L, s[lo])
    ELSE LET mid == (lo + hi) \div 2
             left == ShlexRun(s, lo, mid, L)
         IN  IF left.st \in ShlexStates
             THEN ShlexRun(s, mid + 1, hi, left)
             ELSE left

\* end of input: an open quote or a dangling escape raises ValueError
shlex_split(line) ==
    LET L == ShlexRun(line, 1, Len(line), ShlexStart)
    IN  IF L.st \in ShlexQuotes
        THEN [error |-> Raise("ValueError", NoClosingQuotation), tokens |-> <<>>]
        ELSE IF L.st \in ShlexEscape
        THEN [error |-> Raise("ValueError", NoEscapedCharacter), tokens |-> <<>>]
        ELSE [error |-> NoError,
              tokens |-> IF L.tok # <<>> \/ L.quoted
                         THEN Append(L.out, L.tok) ELSE L.out]

MapStripQuotes(tokens) == [i \in 1..Len(tokens) |-> strip_quotes(tokens[i])]

\* a variant that never sees the error marker
HasErrorMarkerNever(line) == FALSE

\* re.match(r'^clang: error:', line)
HasErrorMarker(line) == StartsWith(ClangErrorMarker, line)

\* cmd = command[:]; cmd.insert(1, '-###')
InsertPrintFlag(command) == <<Head(command), "-###">> \o Tail(command)

\* get_arguments(cwd, command) on a child that prints `stream` and exits
\* with `rc`: the value returned or the exception raised, and whether the
\* child's stdout was closed and the child waited on before leaving.
get_arguments(stream, rc) ==
    LET ll == lastline(stream)
        line == ll.last
        split == shlex_split(line)
    IN  IF ll.error # NoError
        THEN [error |-> ll.error, value |-> <<>>, closed |-> FALSE, waited |-> FALSE]
        ELSE IF rc = 0
        THEN IF HasErrorMarker(line)
             THEN [error |-> Raise("Exception", line), value |-> <<>>,
                   closed |-> TRUE, waited |-> TRUE]
             ELSE IF split.error # NoError
             THEN [error |-> split.error, value |-> <<>>,
                   closed |-> TRUE, waited |-> TRUE]
             ELSE [error |-> NoError, value |-> MapStripQuotes(split.tokens),
                   closed |-> TRUE, waited |-> TRUE]
        ELSE [error |-> Raise("Exception", line), value |-> <<>>,
              closed |-> TRUE, waited |-> TRUE]

(***************************************************************************)
(* _get_active_checkers                                                    *)
(***************************************************************************)
Languages == <<"c", "c++", "objective-c", "objective-c++">>

AnalyzerCheckerFlag ==
    <<"-","a","n","a","l","y","z","e","r","-","c","h","e","c","k","e","r","=">>

\* a variant that searches for the flag instead of matching at the start
SearchChecker(arg) ==
    IF \E k \in 0..Len(arg) : StartsWith(AnalyzerCheckerFlag, Drop(arg, k))
    THEN LET k == CHOOSE j \in 0..Len(arg) :
                      StartsWith(AnalyzerCheckerFlag, Drop(arg, j))
         IN  [matched |-> TRUE,
              group |-> Drop(arg, k + Len(AnalyzerCheckerFlag))]
    ELSE [matched |-> FALSE, group |-> <<>>]

\* pattern = re.compile(r'^-analyzer-checker=(.*)$'); pattern.match(arg):
\* '.' does not match a newline and '$' also matches before a final newline
MatchChecker(arg) ==
    LET rest == Drop(arg, Len(AnalyzerCheckerFlag))
        group == IF rest # <<>> /\ rest[Len(rest)] = NL
                 THEN SubSeq(rest, 1, Len(rest) - 1)
                 ELSE rest
    IN  IF StartsWith(AnalyzerCheckerFlag, arg)
           /\ \A i \in 1..Len(group) : group[i] # NL
        THEN [matched |-> TRUE, group |-> group]
        ELSE [matched |-> FALSE, group |-> <<>>]

\* checkers(language, load), given the tokens get_arguments returned
checkers(tokens) ==
    {MatchChecker(tokens[i]).group :
        i \in {j \in 1..Len(tokens) : MatchChecker(tokens[j]).matched}}

RECURSIVE LoadXclang(_)
LoadXclang(ps) ==
    IF ps = <<>> THEN <<>>
    ELSE LoadXclang(SubSeq(ps, 1, Len(ps) - 1))
         \o <<"-Xclang", "-load", "-Xclang", ps[Len(ps)]>>

ProbeCommand(language, ps) ==
    <<"clang", "--analyze">> \o LoadXclang(ps) \o <<"-x", language, "-">>

ProbeChild(language, ps, stream, rc) ==
    [kind |-> "probe", language |-> language,
     cmd |-> InsertPrintFlag(ProbeCommand(language, ps)),
     cwd |-> ".", stream |-> stream, rc |-> rc]

\* the events one get_arguments call leaves on child n
ChildEvents(n, r) ==
    <<[op |-> "spawn", child |-> n]>>
    \o (IF r.closed THEN <<[op |-> "close", child |-> n]>> ELSE <<>>)
    \o (IF r.waited THEN <<[op |-> "wait", child |-> n]>> ELSE <<>>)

\* set(itertools.chain.from_iterable(...)) over the four token lists
UnionOfCheckers(tokenLists) ==
    UNION {checkers(tokenLists[i]) : i \in 1..Len(tokenLists)}

\* a variant that goes on to the next language after a failure
AfterProbeKeepGoing(r, n) ==
    IF n = Len(Languages) /\ r.error = NoError THEN "help" ELSE "probe"

\* where control goes after the probe of language number n returned r
AfterProbe(r, n) ==
    IF r.error # NoError THEN "failed"
    ELSE IF n = Len(Languages) THEN "help"
    ELSE "probe"

\* one language of _get_active_checkers: checkers(language, load) runs
\* get_arguments on a child that prints `stream` and exits with `rc`
ProbeStep(stream, rc) ==
    LET n == Len(args) + 1
        r == get_arguments(stream, rc)
        next == AfterProbe(r, n)
    IN  /\ pc = "probe"
        /\ n <= Len(Languages)
        /\ children' = Append(children, ProbeChild(Languages[n], plugins, stream, rc))
        /\ events' = events \o ChildEvents(Len(children) + 1, r)
        /\ pc' = next
        /\ args' = IF r.error = NoError THEN Append(args, r.value) ELSE args
        /\ error' = r.error
        /\ actives' = IF next = "help" THEN UnionOfCheckers(args') ELSE actives
        /\ UNCHANGED <<plugins, emitted, returned>>

(***************************************************************************)
(* get_checkers                                                            *)
(***************************************************************************)
CheckersHeader == <<"C","H","E","C","K","E","R","S",":">>

CouldNotQuery ==
    <<"C","o","u","l","d"," ","n","o","t"," ","q","u","e","r","y"," ",
      "C","l","a","n","g"," ","f","o","r"," ",
      "a","v","a","i","l","a","b","l","e"," ",
      "c","h","e","c","k","e","r","s",".">>

\* the lines left in the stream after the first loop of parse_checkers:
\* everything after the first line matching r'^CHECKERS:'
RECURSIVE AfterHeader(_)
AfterHeader(stream) ==
    IF stream = <<>> THEN <<>>
    ELSE IF StartsWith(CheckersHeader, Head(stream)) THEN Tail(stream)
    ELSE AfterHeader(Tail(stream))

\* re.match(r'^\s\s\S', line)
MatchesIndentedToken(line) ==
    /\ Len(line) >= 3
    /\ IsSpace(line[1])
    /\ IsSpace(line[2])
    /\ ~IsSpace(line[3])

\* a variant without the end anchor
MatchesBareNameOpen(stripped) ==
    /\ Len(stripped) >= 3
    /\ IsSpace(stripped[1])
    /\ IsSpace(stripped[2])
    /\ ~IsSpace(stripped[3])

\* re.match(r'^\s\s\S+$', stripped), stripped being line.rstrip()
MatchesBareName(stripped) ==
    /\ Len(stripped) >= 3
    /\ IsSpace(stripped[1])
    /\ IsSpace(stripped[2])
    /\ \A i \in 3..Len(stripped) : ~IsSpace(stripped[i])

\* the part of s before its first newline ('.*' stops at a newline)
RECURSIVE UpToNewline(_)
UpToNewline(s) ==
    IF s = <<>> \/ Head(s) = NL THEN <<>>
    ELSE <<Head(s)>> \o UpToNewline(Tail(s))

\* re.compile(r'^\s\s(?P<key>\S*)\s*(?P<value>.*)').match(stripped)
MatchEntry(stripped) ==
    IF Len(stripped) >= 2 /\ IsSpace(stripped[1]) /\ IsSpace(stripped[2])
    THEN LET key == NonSpaceRun(Drop(stripped, 2))
             rest == LStrip(Drop(stripped, 2 + Len(key)))
         IN  [matched |-> TRUE, key |-> key, value |-> UpToNewline(rest)]
    ELSE [matched |-> FALSE, key |-> <<>>, value |-> <<>>]

\* the second loop of parse_checkers; state = <<>> stands for None
RECURSIVE FindEntries(_, _)
FindEntries(stream, state) ==
    IF stream = <<>> THEN <<>>
    ELSE LET line == Head(stream)
             current == MatchEntry(RStrip(line))
         IN  IF state # <<>> /\ ~MatchesIndentedToken(line)
             THEN <<<<state, Strip(line)>>>> \o FindEntries(Tail(stream), <<>>)
             ELSE IF MatchesBareName(RStrip(line))
             THEN FindEntries(Tail(stream), Strip(line))
             ELSE IF current.matched
             THEN <<<<current.key, current.value>>>>
                  \o FindEntries(Tail(stream), state)
             ELSE FindEntries(Tail(stream), state)

parse_checkers(stream) == FindEntries(AfterHeader(stream), <<>>)

\* one atom of an active name used as a regular expression: '.' matches
\* any character but a newline, a letter matches itself (active names are
\* drawn from letters and '.')
AtomMatches(atom, c) == IF atom = "." THEN c # NL ELSE atom = c

\* re.match(r'^' + a + r'(\.|$)', entry)
MatchesActive(a, entry) ==
    /\ Len(entry) >= Len(a)
    /\ \A i \in 1..Len(a) : AtomMatches(a[i], entry[i])
    /\ \/ Len(entry) = Len(a)
       \/ entry[Len(a) + 1] = "."
       \/ Len(entry) = Len(a) + 1 /\ entry[Len(a) + 1] = NL

is_active(activeNames, entry) ==
    \E a \in activeNames : MatchesActive(a, entry)

\* {k: (v, is_active(actives, k)) for k, v in parse_checkers(child.stdout)}:
\* a later pair replaces an earlier one with the same key
BuildCheckers(pairs, activeNames) ==
    LET keys == {pairs[i][1] : i \in 1..Len(pairs)}
        LastIndex(k) ==
            CHOOSE i \in 1..Len(pairs) :
                /\ pairs[i][1] = k
                /\ \A j \in (i + 1)..Len(pairs) : pairs[j][1] # k
    IN  [k \in keys |-> <<pairs[LastIndex(k)][2], is_active(activeNames, k)>>]

RECURSIVE LoadCc1(_)
LoadCc1(ps) ==
    IF ps = <<>> THEN <<>>
    ELSE LoadCc1(SubSeq(ps, 1, Len(ps) - 1)) \o <<"-load", ps[Len(ps)]>>

HelpChild(ps, stream, rc) ==
    [kind |-> "help", language |-> "",
     cmd |-> <<"clang", "-cc1">> \o LoadCc1(ps) \o <<"-analyzer-checker-help">>,
     cwd |-> "", stream |-> stream, rc |-> rc]

\* a variant that looks at the dictionary only
QuerySucceededAnyExit(rc, dict) == DOMAIN dict # {}

\* if 0 == child.returncode and len(checkers)
QuerySucceeded(rc, dict) == rc = 0 /\ DOMAIN dict # {}

NoCheckers == BuildCheckers(<<>>, {})

\* the rest of get_checkers once `actives` is bound: the help-text child
\* prints `stream` and exits with `rc`
HelpStep(stream, rc) ==
    LET n == Len(children) + 1
        pairs == parse_checkers(stream)
        dict == BuildCheckers(pairs, actives)
    IN  /\ pc = "help"
        /\ children' = Append(children, HelpChild(plugins, stream, rc))
        /\ events' = events \o <<[op |-> "spawn", child |-> n],
                                 [op |-> "close", child |-> n],
                                 [op |-> "wait", child |-> n]>>
        /\ emitted' = pairs
        /\ IF QuerySucceeded(rc, dict)
           THEN /\ pc' = "done"
                /\ returned' = dict
                /\ error' = NoError
           ELSE /\ pc' = "failed"
                /\ returned' = NoCheckers
                /\ error' = Raise("Exception", CouldNotQuery)
        /\ UNCHANGED <<plugins, args, actives>>

(***************************************************************************)
(* Inputs: what the child processes print and how they exit.               *)
(***************************************************************************)
ExitCodes == {0, 1}

Quoted(t) == <<DQ>> \o t \o <<DQ>>
Flag(v) == AnalyzerCheckerFlag \o v

RECURSIVE Words(_)
Words(tokens) ==
    IF tokens = <<>> THEN <<>>
    ELSE IF Len(tokens) = 1 THEN Head(tokens)
    ELSE Head(tokens) \o <<" ">> \o Words(Tail(tokens))

LineOf(tokens) == Words(tokens) \o <<NL>>

NameA == <<"a">>
NameAB == <<"a", ".", "b">>
NameAX == <<"a", "x">>
NameAXB == <<"a", "x", "b">>
Cc1 == <<"c", "c", "1">>

\* last lines of the -### children
ProbeLineA == LineOf(<<Quoted(Cc1), Quoted(Flag(NameA))>>)
ProbeLineAB ==
    LineOf(<<Quoted(Cc1), Quoted(Flag(NameAB)), Quoted(<<"x">> \o Flag(NameAX))>>)
ProbeLineAX == LineOf(<<Cc1, Flag(NameAX), Flag(NameA)>>)
ProbeLineNone == LineOf(<<Quoted(Cc1), Quoted(<<"-", "x">>)>>)
ProbeLineError == LineOf(<<ClangErrorMarker, <<"x">>>>)
ProbeLineOpen == LineOf(<<<<DQ>> \o Cc1, Flag(NameA)>>)
VersionLine == <<"v", "1", NL>>

GoodProbeStreams ==
    {<<VersionLine, ProbeLineA>>, <<ProbeLineAB>>, <<ProbeLineAX>>,
     <<ProbeLineNone>>}

ProbeStreams ==
    GoodProbeStreams \cup {<<>>, <<ProbeLineError>>, <<VersionLine, ProbeLineOpen>>}

\* every last line of at most MaxLineLen characters over ArgAlphabet, with
\* or without its newline, and some lines around the error marker
ArgAlphabet == {"a", " ", DQ, SQ, BS}

ShortTexts == UNION {[1..m -> ArgAlphabet] : m \in 0..MaxLineLen}

MarkerLines ==
    {ClangErrorMarker, ClangErrorMarker \o <<" ", "a">>,
     <<" ">> \o ClangErrorMarker,
     SubSeq(ClangErrorMarker, 1, Len(ClangErrorMarker) - 1),
     <<"a", " ">> \o ClangErrorMarker}

WideLines ==
    {t \o e : t \in ShortTexts \cup MarkerLines, e \in {<<>>, <<NL>>}}

WideStreams ==
    {<<>>} \cup {p \o <<l>> : p \in {<<>>, <<VersionLine>>}, l \in WideLines}

\* lines of the -analyzer-checker-help output
InlineLine(name, sep, text) == <<" ", " ">> \o name \o sep \o text \o <<NL>>
NameLine(name) == <<" ", " ">> \o name \o <<NL>>
TextLine(indent, text) == indent \o text \o <<NL>>

HeaderLine == CheckersHeader \o <<NL>>
TextDE == <<"d", " ", "e">>
TextD == <<"d">>
Indent5 == <<" ", " ", " ", " ", " ">>

InlineAB == InlineLine(NameAB, <<" ">>, TextDE)
InlineAXB == InlineLine(NameAXB, <<" ", " ">>, TextD \o <<" ">>)
BareAB == NameLine(NameAB)
BareAXB == NameLine(NameAXB)
Detail == TextLine(Indent5, TextDE)
BlankLine == <<NL>>
PlainLine == <<"x", " ", "d", NL>>

HelpLines ==
    {InlineAB, InlineAXB, BareAB, BareAXB, Detail, BlankLine, PlainLine}

HelpStreams ==
    {<<>>, <<HeaderLine>>, <<HeaderLine, InlineAB, InlineAXB>>,
     <<HeaderLine, BareAXB, Detail, InlineAB>>, <<HeaderLine, Detail>>,
     <<PlainLine, HeaderLine, InlineAB, BlankLine, BareAXB, Detail>>}

Bodies == UNION {[1..m -> HelpLines] : m \in 0..MaxBody}

WideHelpStreams ==
    {h \o b : h \in {<<>>, <<HeaderLine>>, <<PlainLine, HeaderLine>>},
              b \in Bodies}

(***************************************************************************)
(* get_checkers(clang, plugins) as a whole.                                *)
(***************************************************************************)
Init ==
    /\ pc = "probe"
    /\ plugins \in {<<>>, <<"p.so">>}
    /\ children = <<>>
    /\ events = <<>>
    /\ args = <<>>
    /\ actives = {}
    /\ emitted = <<>>
    /\ returned = NoCheckers
    /\ error = NoError

Probe ==
    /\ pc = "probe"
    /\ \E stream \in ProbeStreams, rc \in ExitCodes : ProbeStep(stream, rc)

Help ==
    /\ pc = "help"
    /\ \E stream \in HelpStreams, rc \in ExitCodes : HelpStep(stream, rc)

Next == Probe \/ Help

Spec == Init /\ [][Next]_vars

(***************************************************************************)
(* One get_arguments call (the probe of the first language) over every     *)
(* short last line.                                                        *)
(***************************************************************************)
InitArgs == Init /\ plugins = <<>>

GetArguments ==
    /\ pc = "probe"
    /\ children = <<>>
    /\ \E stream \in WideStreams, rc \in ExitCodes : ProbeStep(stream, rc)

NextArgs == GetArguments

SpecArgs == InitArgs /\ [][NextArgs]_vars

(***************************************************************************)
(* The help-text query over every short help text, started where the four  *)
(* probes have all printed the same good stream.                           *)
(***************************************************************************)
InitHelp ==
    \E stream \in {<<VersionLine, ProbeLineA>>, <<ProbeLineAB>>} :
        LET r == get_arguments(stream, 0)
            n == Len(Languages)
        IN  /\ pc = "help"
            /\ plugins = <<>>
            /\ children = [i \in 1..n |-> ProbeChild(Languages[i], <<>>, stream, 0)]
            /\ events = [j \in 1..(3 * n) |->
                            ChildEvents((j + 2) \div 3, r)[((j - 1) % 3) + 1]]
            /\ args = [i \in 1..n |-> r.value]
            /\ actives = checkers(r.value)
            /\ emitted = <<>>
            /\ returned = NoCheckers
            /\ error = NoError

QueryHelp ==
    /\ pc = "help"
    /\ \E stream \in WideHelpStreams, rc \in ExitCodes : HelpStep(stream, rc)

NextHelp == QueryHelp

SpecHelp == InitHelp /\ [][NextHelp]_vars

(***************************************************************************)
(* Properties.                                                             *)
(***************************************************************************)
HelpSpawned == children # <<>> /\ children[Len(children)].kind = "help"
HelpStream == children[Len(children)].stream
HelpExit == children[Len(children)].rc

Contains(seq, x) == \E i \in 1..Len(seq) : seq[i] = x

\* n equals a, or n begins with a followed by '.', character for character
LiteralDescendant(a, n) == n = a \/ StartsWith(a \o <<".">>, n)

\* C1: every name in the returned dictionary is marked active exactly when
\* it equals an entry of the active set or begins with one followed by
\* '.', the entry being compared as a literal string.
C1_LiteralPrefixActivation ==
    pc = "done" =>
        \A n \in DOMAIN returned :
            returned[n][2] <=> \E a \in actives : LiteralDescendant(a, n)

\* the entries a well-formed help text is written from: a name, the
\* description, and how the entry is laid out
Entries ==
    {[name |-> NameAB, split |-> FALSE, gap |-> <<" ">>, text |-> TextDE,
      trail |-> <<>>],
     [name |-> NameAXB, split |-> FALSE, gap |-> <<" ", " ">>, text |-> TextD,
      trail |-> <<" ">>],
     [name |-> NameAB, split |-> TRUE, gap |-> Indent5, text |-> TextDE,
      trail |-> <<>>],
     [name |-> NameAXB, split |-> TRUE, gap |-> Indent5, text |-> TextDE,
      trail |-> <<>>]}

EntryLists ==
    {es \in UNION {[1..m -> Entries] : m \in 0..2} :
        \A i, j \in 1..Len(es) : i # j => es[i].name # es[j].name}

WriteEntry(e) ==
    IF e.split
    THEN <<NameLine(e.name), TextLine(e.gap, e.text \o e.trail)>>
    ELSE <<InlineLine(e.name, e.gap, e.text \o e.trail)>>

RECURSIVE WriteEntries(_)
WriteEntries(es) ==
    IF es = <<>> THEN <<>> ELSE WriteEntry(Head(es)) \o WriteEntries(Tail(es))

\* C2: for a help text made of the header and N entries with distinct
\* names, each written inline or split over two lines, parse_checkers
\* yields exactly the N (name, trimmed description) pairs, in order.
C2_ParsesWellFormedHelp ==
    \A es \in EntryLists :
        (HelpSpawned /\ HelpStream = <<HeaderLine>> \o WriteEntries(es))
            => emitted = [i \in 1..Len(es) |-> <<es[i].name, es[i].text>>]

C2_Witness ==
    /\ HelpSpawned
    /\ HelpStream = <<HeaderLine, BareAXB, Detail, InlineAB>>
    /\ emitted = <<<<NameAXB, TextDE>>, <<NameAB, TextDE>>>>

\* the single get_arguments call of SpecArgs
CallMade == Len(children) = 1
CallStream == children[1].stream
CallExit == children[1].rc
CallLastLine == CallStream[Len(CallStream)]
CallReturned == CallMade /\ pc = "probe" /\ Len(args) = 1
CallFailedWith(text) ==
    /\ pc = "failed"
    /\ error = [type |-> "Exception", text |-> text]
    /\ args = <<>>

\* C3: get_arguments returns tokens only if the child printed a line,
\* exited with 0 and its last line does not begin with 'clang: error:';
\* without output it fails with 'output not found', with a non-zero exit
\* or an error marker it fails with the last line.
C3_ReturnsOnlyOnCleanExit ==
    CallMade =>
        /\ CallReturned =>
              /\ CallStream # <<>>
              /\ CallExit = 0
              /\ ~StartsWith(ClangErrorMarker, CallLastLine)
        /\ CallStream = <<>> => CallFailedWith(OutputNotFound)
        /\ (CallStream # <<>> /\ CallExit # 0) => CallFailedWith(CallLastLine)
        /\ (CallStream # <<>> /\ CallExit = 0
              /\ StartsWith(ClangErrorMarker, CallLastLine))
              => CallFailedWith(CallLastLine)

C3_Witness ==
    /\ CallMade
    /\ CallExit = 0
    /\ CallStream = <<ClangErrorMarker \o <<" ", "a", NL>>>>
    /\ CallFailedWith(ClangErrorMarker \o <<" ", "a", NL>>)

\* a line after the header whose first two characters are spaces and whose
\* third starts a name: what the entry-name and entry-inline patterns share
StartsEntry(line) ==
    /\ Len(line) >= 3
    /\ line[1] = " "
    /\ line[2] = " "
    /\ ~IsSpace(line[3])

\* C4: when the probes succeeded and the help child exits with 0 after
\* printing the header and no line that starts an entry, get_checkers
\* fails with 'Could not query ...' and returns nothing.
C4_EmptyCatalogFails ==
    (/\ HelpSpawned
     /\ HelpExit = 0
     /\ HelpStream # <<>>
     /\ Head(HelpStream) = HeaderLine
     /\ \A i \in 2..Len(HelpStream) : ~StartsEntry(HelpStream[i]))
        => /\ pc = "failed"
           /\ error = [type |-> "Exception", text |-> CouldNotQuery]
           /\ DOMAIN returned = {}

\* C5: when the probes succeeded and the help child exits with a non-zero
\* status, get_checkers fails with 'Could not query ...' and returns
\* nothing, whatever the child printed.
C5_NonZeroExitFails ==
    (HelpSpawned /\ HelpExit # 0)
        => /\ pc = "failed"
           /\ error = [type |-> "Exception", text |-> CouldNotQuery]
           /\ DOMAIN returned = {}

C5_Witness ==
    /\ HelpSpawned
    /\ HelpExit # 0
    /\ Len(emitted) >= 2
    /\ pc = "failed"

LanguageOrder == <<"c", "c++", "objective-c", "objective-c++">>

HasEvent(op, n) == Contains(events, [op |-> op, child |-> n])

Precedes(e, f) ==
    \E i, j \in 1..Len(events) : i < j /\ events[i] = e /\ events[j] = f

ProbeError(i) == get_arguments(children[i].stream, children[i].rc).error

\* C6: the languages are probed one at a time in the order c, c++,
\* objective-c, objective-c++, each child waited on before the next is
\* spawned; when a reconstruction fails, its error is the one that leaves
\* get_checkers, no later probe and no help child is spawned, and no
\* active set or dictionary is returned.
C6_SequentialFirstFailure ==
    /\ Len(children) <= Len(LanguageOrder) + 1
    /\ \A i \in 1..Len(children) :
          IF i <= Len(LanguageOrder)
          THEN /\ children[i].kind = "probe"
               /\ children[i].language = LanguageOrder[i]
          ELSE children[i].kind = "help"
    /\ \A i \in 2..Len(children) :
          i <= Len(LanguageOrder) =>
              Precedes([op |-> "wait", child |-> i - 1],
                       [op |-> "spawn", child |-> i])
    /\ \A i \in 1..Len(children) :
          (i <= Len(LanguageOrder) /\ ProbeError(i) # NoError) =>
              /\ i = Len(children)
              /\ pc = "failed"
              /\ error = ProbeError(i)
              /\ actives = {}
              /\ emitted = <<>>
              /\ DOMAIN returned = {}

C6_Witness ==
    /\ Len(children) = 3
    /\ children[3].stream = <<>>
    /\ ProbeError(1) = NoError
    /\ ProbeError(2) = NoError
    /\ pc = "failed"
    /\ error = [type |-> "Exception", text |-> OutputNotFound]

\* the values v of the tokens '-analyzer-checker=' v in a token list
FlagValues(tokens) ==
    {Drop(tokens[j], Len(AnalyzerCheckerFlag)) :
        j \in {k \in 1..Len(tokens) : StartsWith(AnalyzerCheckerFlag, tokens[k])}}

FullyWrapped(t) ==
    /\ Len(t) >= 2
    /\ t[1] = DQ
    /\ t[Len(t)] = DQ
    /\ \A i \in 2..(Len(t) - 1) : t[i] # DQ

Unwrapped(t) == SubSeq(t, 2, Len(t) - 1)

WithoutFinalNewline(t) ==
    IF t # <<>> /\ t[Len(t)] = NL THEN SubSeq(t, 1, Len(t) - 1) ELSE t

\* the last line when it is one token: no whitespace but its final newline
SingleToken == WithoutFinalNewline(CallLastLine)

\* C8 as stated, for a last line that is one token without single quotes
\* or backslashes: a token fully wrapped in double quotes appears in the
\* result without them, and any other token (one with a double quote that
\* is not fully wrapped, or one without quotes) appears unchanged.
C8_LineTokensKeepQuotes ==
    (/\ CallReturned
     /\ SingleToken # <<>>
     /\ \A i \in 1..Len(SingleToken) :
           ~IsSpace(SingleToken[i]) /\ SingleToken[i] \notin {SQ, BS})
        => IF FullyWrapped(SingleToken)
           THEN Contains(args[1], Unwrapped(SingleToken))
           ELSE Contains(args[1], SingleToken)

\* C8 as amended: the result is the shell-word split of the last line,
\* token by token; a split token fully wrapped in double quotes (with or
\* without a final newline) appears without them, any other split token
\* appears unchanged.
C8_SplitTokensStripped ==
    CallReturned =>
        LET split == shlex_split(CallLastLine).tokens
        IN  /\ Len(args[1]) = Len(split)
            /\ \A i \in 1..Len(split) :
                  args[1][i] =
                      IF FullyWrapped(WithoutFinalNewline(split[i]))
                      THEN Unwrapped(WithoutFinalNewline(split[i]))
                      ELSE split[i]

C8_Witness ==
    /\ CallReturned
    /\ CallLastLine = <<SQ, DQ, "a", DQ, SQ>>
    /\ shlex_split(CallLastLine).tokens = <<<<DQ, "a", DQ>>>>
    /\ args[1] = <<<<"a">>>>

\* C9: when get_checkers returns or fails, every child spawned has had its
\* stdout closed and has been waited on.
C9_ChildrenClosedAndWaited ==
    pc \in {"done", "failed"} =>
        \A n \in 1..Len(children) : HasEvent("close", n) /\ HasEvent("wait", n)

\* C10: every name parse_checkers yields is a non-empty token without
\* whitespace that stands directly after exactly two leading spaces on a
\* line after the header.
C10_EmittedNamesAreTokens ==
    HelpSpawned =>
        \A i \in 1..Len(emitted) :
            LET name == emitted[i][1]
                body == AfterHeader(HelpStream)
            IN  /\ name # <<>>
                /\ \A k \in 1..Len(name) : ~IsSpace(name[k])
                /\ \E j \in 1..Len(body) :
                      /\ StartsWith(<<" ", " ">> \o name, body[j])
                      /\ \/ Len(body[j]) = Len(name) + 2
                         \/ IsSpace(body[j][Len(name) + 3])

====
